---- MODULE Spec2Model ----
(***************************************************************************)
(* HttpFunctionAdapter (src/adapters/digital-ocean/http-function.adapter.ts)*)
(* as a state machine: one adapter instance, built once, whose methods the  *)
(* dispatcher calls for each in-flight request.  Every method is            *)
(* synchronous, so one call is one atomic step.                             *)
(*                                                                          *)
(* Strings are sequences of one-character strings.  A JavaScript value is a *)
(* record tagged with its type, so that undefined, null, primitives and     *)
(* objects stay distinct and property reads and truthiness follow the       *)
(* language.                                                                *)
(***************************************************************************)
EXTENDS Integers, Sequences, FiniteSets, TLC

VARIABLES
    options,      \* this.options of the adapter instance
    constructed,  \* the options object the constructor was given
    pc,           \* per request: where the dispatcher is in the lifecycle
    event,        \* per request: the platform event object as it is now
    received,     \* per request: the event as the platform delivered it
    handled,      \* per request: what canHandle returned
    request,      \* per request: what getRequest returned
    props,        \* per request: the props of getResponse / onErrorWhileForwarding
    response,     \* per request: what getResponse returned
    resolved,     \* per request: the responses given to delegatedResolver.succeed
    thrown        \* per request: the exception that escaped an adapter method

vars == <<options, constructed, pc, event, received, handled, request, props,
          response, resolved, thrown>>

(***************************************************************************)
(* Bounds of the model                                                      *)
(***************************************************************************)
MaxBaseLen == 3
MaxPathLen == 3
MaxBodyLen == 3
MaxHeaderValues == 2
NumRequests == 2

(***************************************************************************)
(* JavaScript values                                                        *)
(***************************************************************************)
Undefined == [t |-> "undefined"]
Null == [t |-> "null"]
None == [t |-> "none"]
Bool(b) == [t |-> "boolean", v |-> b]
Num(n) == [t |-> "number", v |-> n]
Str(s) == [t |-> "string", v |-> s]
Arr(a) == [t |-> "array", v |-> a]
Obj(f) == [t |-> "object", v |-> f]
Buf(bytes) == [t |-> "buffer", v |-> bytes]

EmptyObject == Obj([k \in {} |-> Undefined])

Return(v) == [threw |-> "none", ret |-> v]
Throw(e) == [threw |-> e, ret |-> Undefined]

ToBoolean(v) ==
    CASE v.t \in {"undefined", "null"} -> FALSE
      [] v.t = "boolean" -> v.v
      [] v.t = "number" -> v.v # 0
      [] v.t = "string" -> Len(v.v) > 0
      [] OTHER -> TRUE

\* v[k]: reading a property of undefined or null throws a TypeError
Get(v, k) ==
    IF v.t \in {"undefined", "null"} THEN Throw("TypeError")
    ELSE IF v.t = "object" /\ k \in DOMAIN v.v THEN Return(v.v[k])
    ELSE Return(Undefined)

\* v?.k
GetOptional(v, k) ==
    IF v.t \in {"undefined", "null"} THEN Undefined ELSE Get(v, k).ret

\* v[k] = x on an object; on undefined or null it throws a TypeError
Set(v, k, x) ==
    IF v.t # "object" THEN Throw("TypeError")
    ELSE Return(Obj([j \in DOMAIN v.v \cup {k} |-> IF j = k THEN x ELSE v.v[j]]))

Digits == <<"0", "1", "2", "3", "4", "5", "6", "7", "8", "9">>

\* String(n) of a natural number
RECURSIVE NumberToString(_)
NumberToString(n) ==
    IF n < 10 THEN <<Digits[n + 1]>>
    ELSE NumberToString(n \div 10) \o <<Digits[(n % 10) + 1]>>

StartsWith(s, p) == Len(p) <= Len(s) /\ SubSeq(s, 1, Len(p)) = p

RECURSIVE SeqsUpTo(_, _)
SeqsUpTo(alphabet, n) ==
    IF n = 0 THEN {<<>>}
    ELSE LET shorter == SeqsUpTo(alphabet, n - 1)
         IN shorter \cup {Append(s, c) : s \in shorter, c \in alphabet}

(***************************************************************************)
(* new RegExp(source) and String.prototype.replace(regex, '')               *)
(* The pattern characters the model draws are "^", "$", ".", "*", "(" and   *)
(* literals; there is no ")", so every "(" opens a group that never closes. *)
(***************************************************************************)
Atom(kind, c) == [kind |-> kind, c |-> c, star |-> FALSE]

RECURSIVE RegExpParse(_, _, _)
RegExpParse(src, i, atoms) ==
    IF i > Len(src) THEN Return(atoms)
    ELSE LET c == src[i]
             n == Len(atoms)
         IN CASE c = "(" -> Throw("SyntaxError")
              [] c = "*" ->
                   IF n = 0 \/ atoms[n].star \/ atoms[n].kind \in {"start", "end"}
                   THEN Throw("SyntaxError")
                   ELSE RegExpParse(src, i + 1,
                            [atoms EXCEPT ![n] = [@ EXCEPT !.star = TRUE]])
              [] c = "^" -> RegExpParse(src, i + 1, Append(atoms, Atom("start", c)))
              [] c = "$" -> RegExpParse(src, i + 1, Append(atoms, Atom("end", c)))
              [] c = "." -> RegExpParse(src, i + 1, Append(atoms, Atom("any", c)))
              [] OTHER -> RegExpParse(src, i + 1, Append(atoms, Atom("char", c)))

RegExp(src) == RegExpParse(src, 1, <<>>)

AtomAccepts(atom, c) == atom.kind = "any" \/ (atom.kind = "char" /\ atom.c = c)

\* how many characters of s from pos on the atom accepts in a row
RECURSIVE Run(_, _, _)
Run(atom, s, pos) ==
    IF pos <= Len(s) /\ AtomAccepts(atom, s[pos]) THEN 1 + Run(atom, s, pos + 1)
    ELSE 0

\* The position after the match of atoms[i..] at pos, 0 when there is none.
\* A starred atom is greedy and backtracks.
RECURSIVE MatchAt(_, _, _, _)
RECURSIVE MatchStar(_, _, _, _, _)
MatchAt(atoms, i, s, pos) ==
    IF i > Len(atoms) THEN pos
    ELSE LET a == atoms[i]
         IN CASE a.kind = "start" ->
                   IF pos = 1 THEN MatchAt(atoms, i + 1, s, pos) ELSE 0
              [] a.kind = "end" ->
                   IF pos = Len(s) + 1 THEN MatchAt(atoms, i + 1, s, pos) ELSE 0
              [] a.star -> MatchStar(atoms, i, s, pos, Run(a, s, pos))
              [] OTHER ->
                   IF pos <= Len(s) /\ AtomAccepts(a, s[pos])
                   THEN MatchAt(atoms, i + 1, s, pos + 1)
                   ELSE 0

MatchStar(atoms, i, s, pos, k) ==
    LET end == MatchAt(atoms, i + 1, s, pos + k)
    IN IF end # 0 THEN end
       ELSE IF k = 0 THEN 0
       ELSE MatchStar(atoms, i, s, pos, k - 1)

\* s.replace(regex, ''): the first match, searched from the left, is removed
RECURSIVE ReplaceFrom(_, _, _)
ReplaceFrom(s, atoms, start) ==
    IF start > Len(s) + 1 THEN s
    ELSE LET end == MatchAt(atoms, 1, s, start)
         IN IF end # 0
            THEN SubSeq(s, 1, start - 1) \o SubSeq(s, end, Len(s))
            ELSE ReplaceFrom(s, atoms, start + 1)

Replace(s, atoms) == ReplaceFrom(s, atoms, 1)

(***************************************************************************)
(* The utilities of ../../core the adapter imports                          *)
(***************************************************************************)
getDefaultIfUndefined(value, fallback) ==
    IF value = Undefined THEN fallback ELSE value

\* the UTF-8 bytes of one character; "e'" stands for e with an acute accent
Utf8(c) ==
    CASE c = "Y" -> <<89>>
      [] c = "Q" -> <<81>>
      [] c = "=" -> <<61>>
      [] c = "e'" -> <<195, 169>>

RECURSIVE Utf8Encode(_)
Utf8Encode(s) ==
    IF s = <<>> THEN <<>> ELSE Utf8(Head(s)) \o Utf8Encode(Tail(s))

\* the six bits a base64 character stands for, -1 for a character that is none
Base64Index(c) ==
    CASE c = "Y" -> 24
      [] c = "Q" -> 16
      [] OTHER -> -1

\* The sextets of s: decoding ends at the first "=", other characters that
\* are not base64 are skipped.
RECURSIVE Sextets(_)
Sextets(s) ==
    IF s = <<>> \/ Head(s) = "=" THEN <<>>
    ELSE IF Base64Index(Head(s)) < 0 THEN Sextets(Tail(s))
    ELSE <<Base64Index(Head(s))>> \o Sextets(Tail(s))

Base64Decode(s) ==
    LET sx == Sextets(s)
        byte(j) ==
            LET a == ((8 * j) \div 6) + 1
                o == (8 * j) % 6
            IN CASE o = 0 -> (sx[a] * 4) + (sx[a + 1] \div 16)
                 [] o = 2 -> ((sx[a] % 16) * 16) + (sx[a + 1] \div 4)
                 [] o = 4 -> ((sx[a] % 4) * 64) + sx[a + 1]
    IN [j \in 1..((6 * Len(sx)) \div 8) |-> byte(j - 1)]

\* [buffer, contentLength] of a body string
getEventBodyAsBuffer(body, isBase64Encoded) ==
    LET bytes == IF isBase64Encoded THEN Base64Decode(body) ELSE Utf8Encode(body)
    IN <<Buf(bytes), Len(bytes)>>

RECURSIVE Join(_, _)
Join(values, separator) ==
    IF values = <<>> THEN <<>>
    ELSE IF Len(values) = 1 THEN values[1]
    ELSE values[1] \o separator \o Join(Tail(values), separator)

\* every array value becomes its elements joined by ",", a string is kept
getFlattenedHeadersMap(headersMap) ==
    Obj([k \in DOMAIN headersMap.v |->
            IF headersMap.v[k].t = "array"
            THEN Str(Join(headersMap.v[k].v, <<",">>))
            ELSE headersMap.v[k]])

\* percent-encoding of one character of a query key or value
PercentEncode(c) ==
    CASE c = " " -> <<"%", "2", "0">>
      [] c = "/" -> <<"%", "2", "F">>
      [] OTHER -> <<c>>

RECURSIVE EncodeURIComponent(_)
EncodeURIComponent(s) ==
    IF s = <<>> THEN <<>> ELSE PercentEncode(Head(s)) \o EncodeURIComponent(Tail(s))

\* the key=value pairs of one entry <<key, value>>; an array value repeats the key
RECURSIVE QueryPairs(_, _)
QueryPairs(key, values) ==
    IF values = <<>> THEN <<>>
    ELSE <<EncodeURIComponent(key) \o <<"=">> \o EncodeURIComponent(Head(values))>>
         \o QueryPairs(key, Tail(values))

RECURSIVE QueryString(_)
QueryString(entries) ==
    IF entries = <<>> THEN <<>>
    ELSE LET key == Head(entries)[1]
             value == Head(entries)[2]
         IN QueryPairs(key, IF value.t = "array" THEN value.v ELSE <<value.v>>)
            \o QueryString(Tail(entries))

\* An object used as a query map is the sequence of its entries, in
\* insertion order.
getPathWithQueryStringParams(path, queryParams) ==
    LET pairs == QueryString(queryParams.v)
    IN IF pairs = <<>> THEN path ELSE path \o <<"?">> \o Join(pairs, <<"&">>)

(***************************************************************************)
(* HttpFunctionAdapter                                                      *)
(* A method's effect is a record: the exception it threw ("none" when it    *)
(* returned), what it returned, and the objects it can reach as the call    *)
(* leaves them (the event, this.options).                                   *)
(***************************************************************************)
\* canHandle without the !!event guard
canHandle_noTruthinessGuard(e) ==
    LET path == Get(e, "__ow_path")
        method == Get(e, "__ow_method")
        headers == Get(e, "__ow_headers")
    IN IF path.threw # "none" THEN path
       ELSE IF path.ret = Undefined THEN Return(FALSE)
       ELSE IF method.threw # "none" THEN method
       ELSE IF method.ret = Undefined THEN Return(FALSE)
       ELSE IF headers.threw # "none" THEN headers
       ELSE Return(headers.ret # Undefined)

canHandle(e) ==
    LET path == Get(e, "__ow_path")
        method == Get(e, "__ow_method")
        headers == Get(e, "__ow_headers")
    IN IF ~ToBoolean(e) THEN Return(FALSE)
       ELSE IF path.threw # "none" THEN path
       ELSE IF path.ret = Undefined THEN Return(FALSE)
       ELSE IF method.threw # "none" THEN method
       ELSE IF method.ret = Undefined THEN Return(FALSE)
       ELSE IF headers.threw # "none" THEN headers
       ELSE Return(headers.ret # Undefined)

\* getPathFromEvent that writes the resolved base path back to this.options
getPathFromEvent_storesDefault(self, e) ==
    LET stripBasePath ==
            getDefaultIfUndefined(GetOptional(self, "stripBasePath"), Str(<<>>))
        replaceRegex == RegExp(<<"^">> \o stripBasePath.v)
        rawPath == Get(e, "__ow_path")
        queryParams == Get(e, "__ow_query").ret
        stored == Obj([k \in {"stripBasePath"} |-> stripBasePath])
        throws(error) == [threw |-> error, ret |-> Undefined, self |-> stored]
    IN IF replaceRegex.threw # "none" THEN throws(replaceRegex.threw)
       ELSE IF rawPath.threw # "none" THEN throws(rawPath.threw)
       ELSE IF rawPath.ret.t # "string" THEN throws("TypeError")
       ELSE [threw |-> "none",
             ret |-> Str(getPathWithQueryStringParams(
                         Replace(rawPath.ret.v, replaceRegex.ret),
                         IF ToBoolean(queryParams) THEN queryParams ELSE Obj(<<>>))),
             self |-> stored]

getPathFromEvent(self, e) ==
    LET stripBasePath ==
            getDefaultIfUndefined(GetOptional(self, "stripBasePath"), Str(<<>>))
        replaceRegex == RegExp(<<"^">> \o stripBasePath.v)
        rawPath == Get(e, "__ow_path")
        queryParams == Get(e, "__ow_query").ret
        throws(error) == [threw |-> error, ret |-> Undefined, self |-> self]
    IN IF replaceRegex.threw # "none" THEN throws(replaceRegex.threw)
       ELSE IF rawPath.threw # "none" THEN throws(rawPath.threw)
       ELSE IF rawPath.ret.t # "string" THEN throws("TypeError")
       ELSE [threw |-> "none",
             ret |-> Str(getPathWithQueryStringParams(
                         Replace(rawPath.ret.v, replaceRegex.ret),
                         IF ToBoolean(queryParams) THEN queryParams ELSE Obj(<<>>))),
             self |-> self]

\* [bufferBody, contentLength] of the event's body
decodedBody(e) ==
    getEventBodyAsBuffer(Get(e, "__ow_body").ret.v,
                         ToBoolean(Get(e, "__ow_isBase64Encoded").ret))

\* the content-length written is the length of the body string
writeContentLength_ofString(headers, e) ==
    IF ToBoolean(Get(e, "__ow_body").ret)
    THEN Set(headers, "content-length",
             Str(NumberToString(Len(Get(e, "__ow_body").ret.v))))
    ELSE Return(headers)

\* if (event.__ow_body) headers['content-length'] = String(contentLength)
writeContentLength(headers, e) ==
    IF ToBoolean(Get(e, "__ow_body").ret)
    THEN Set(headers, "content-length", Str(NumberToString(decodedBody(e)[2])))
    ELSE Return(headers)

getRequest(self, e) ==
    LET headers == Get(e, "__ow_headers")
        method == Get(e, "__ow_method")
        path == getPathFromEvent(self, e)
        written == writeContentLength(headers.ret, e)
        body == IF ToBoolean(Get(e, "__ow_body").ret) THEN decodedBody(e)[1]
                ELSE Undefined
        remoteAddress == Get(written.ret, "x-forwarded-for")
        throws(error, this) ==
            [threw |-> error, ret |-> Undefined, event |-> e, self |-> this]
    IN IF headers.threw # "none" THEN throws(headers.threw, self)
       ELSE IF path.threw # "none" THEN throws(path.threw, path.self)
       ELSE IF written.threw # "none" THEN throws(written.threw, path.self)
       ELSE IF remoteAddress.threw # "none" THEN throws(remoteAddress.threw, path.self)
       ELSE [threw |-> "none",
             ret |-> [method |-> method.ret,
                      headers |-> written.ret,
                      body |-> body,
                      remoteAddress |-> remoteAddress.ret,
                      path |-> path.ret],
             \* headers is the event's own headers object
             event |-> Obj([e.v EXCEPT !["__ow_headers"] = written.ret]),
             self |-> path.self]

\* getResponse that hands the headers on as they came
getResponse_unflattened(self, p) ==
    [threw |-> "none",
     ret |-> [statusCode |-> p.statusCode, body |-> p.body, headers |-> p.headers],
     self |-> self]

getResponse(self, p) ==
    [threw |-> "none",
     ret |-> [statusCode |-> p.statusCode,
              body |-> p.body,
              headers |-> getFlattenedHeadersMap(p.headers)],
     self |-> self]

\* the stack whatever respondWithErrors says
errorBody_alwaysStack(error, respondWithErrors) == Get(error, "stack")

\* respondWithErrors ? error.stack : ''
errorBody(error, respondWithErrors) ==
    IF respondWithErrors THEN Get(error, "stack") ELSE Return(Str(<<>>))

\* succeed: the responses handed to delegatedResolver.succeed, in order
onErrorWhileForwarding(self, p) ==
    LET body == errorBody(p.error, p.respondWithErrors)
        errorResponse ==
            getResponse(self, [event |-> p.event,
                               statusCode |-> 500,
                               body |-> IF ToBoolean(body.ret) THEN body.ret
                                        ELSE Str(<<>>),
                               headers |-> EmptyObject,
                               isBase64Encoded |-> FALSE])
    IN IF body.threw # "none"
       THEN [threw |-> body.threw, succeed |-> <<>>, self |-> self]
       ELSE IF errorResponse.threw # "none"
       THEN [threw |-> errorResponse.threw, succeed |-> <<>>,
             self |-> errorResponse.self]
       ELSE [threw |-> "none", succeed |-> <<errorResponse.ret>>,
             self |-> errorResponse.self]

(***************************************************************************)
(* The dispatcher's calls, one request at a time or interleaved             *)
(***************************************************************************)
NotThrown == [in |-> "none", error |-> "none"]

InitWith(optionSet, requests) ==
    /\ options \in optionSet
    /\ constructed = options
    /\ pc = [r \in requests |-> "idle"]
    /\ event = [r \in requests |-> None]
    /\ received = [r \in requests |-> None]
    /\ handled = [r \in requests |-> None]
    /\ request = [r \in requests |-> None]
    /\ props = [r \in requests |-> None]
    /\ response = [r \in requests |-> None]
    /\ resolved = [r \in requests |-> <<>>]
    /\ thrown = [r \in requests |-> NotThrown]

\* the platform delivers an event for request r
Receive(r, events) ==
    /\ pc[r] = "idle"
    /\ \E e \in events :
          /\ event' = [event EXCEPT ![r] = e]
          /\ received' = [received EXCEPT ![r] = e]
    /\ pc' = [pc EXCEPT ![r] = "received"]
    /\ UNCHANGED <<options, constructed, handled, request, props, response,
                   resolved, thrown>>

CanHandle(r) ==
    /\ pc[r] = "received"
    /\ LET out == canHandle(event[r])
       IN IF out.threw # "none"
          THEN /\ thrown' = [thrown EXCEPT ![r] = [in |-> "canHandle", error |-> out.threw]]
               /\ pc' = [pc EXCEPT ![r] = "thrown"]
               /\ UNCHANGED handled
          ELSE /\ handled' = [handled EXCEPT ![r] = Bool(out.ret)]
               /\ pc' = [pc EXCEPT ![r] = IF out.ret THEN "accepted" ELSE "rejected"]
               /\ UNCHANGED thrown
    /\ UNCHANGED <<options, constructed, event, received, request, props,
                   response, resolved>>

\* the dispatcher calls getRequest only for an event canHandle accepted
GetRequest(r) ==
    /\ pc[r] = "accepted"
    /\ LET out == getRequest(options, event[r])
       IN /\ options' = out.self
          /\ event' = [event EXCEPT ![r] = out.event]
          /\ IF out.threw # "none"
             THEN /\ thrown' = [thrown EXCEPT ![r] = [in |-> "getRequest", error |-> out.threw]]
                  /\ pc' = [pc EXCEPT ![r] = "thrown"]
                  /\ UNCHANGED request
             ELSE /\ request' = [request EXCEPT ![r] = out.ret]
                  /\ pc' = [pc EXCEPT ![r] = "forwarded"]
                  /\ UNCHANGED thrown
    /\ UNCHANGED <<constructed, received, handled, props, response, resolved>>

\* the handler returned the canonical response p
GetResponse(r, responses) ==
    /\ pc[r] = "forwarded"
    /\ \E p \in responses :
          LET q == [p EXCEPT !.event = event[r]]
              out == getResponse(options, q)
          IN /\ props' = [props EXCEPT ![r] = q]
             /\ options' = out.self
             /\ response' = [response EXCEPT ![r] = out.ret]
    /\ pc' = [pc EXCEPT ![r] = "responded"]
    /\ UNCHANGED <<constructed, event, received, handled, request, resolved, thrown>>

\* the handler threw p.error
OnErrorWhileForwarding(r, failures) ==
    /\ pc[r] = "forwarded"
    /\ \E p \in failures :
          LET q == [p EXCEPT !.event = event[r]]
              out == onErrorWhileForwarding(options, q)
          IN /\ props' = [props EXCEPT ![r] = q]
             /\ options' = out.self
             /\ resolved' = [resolved EXCEPT ![r] = @ \o out.succeed]
             /\ IF out.threw # "none"
                THEN /\ thrown' = [thrown EXCEPT ![r] =
                                      [in |-> "onErrorWhileForwarding", error |-> out.threw]]
                     /\ pc' = [pc EXCEPT ![r] = "thrown"]
                ELSE /\ pc' = [pc EXCEPT ![r] = "finished"]
                     /\ UNCHANGED thrown
    /\ UNCHANGED <<constructed, event, received, handled, request, response>>

(***************************************************************************)
(* Inputs                                                                   *)
(***************************************************************************)
Options(basePaths) ==
    {Obj([k \in {"stripBasePath"} |-> Str(b)]) : b \in basePaths}

HttpEvent(path, method, headers, body, isBase64Encoded, query) ==
    Obj([k \in {"__ow_path", "__ow_method", "__ow_headers", "__ow_body",
                "__ow_isBase64Encoded", "__ow_query"} |->
            CASE k = "__ow_path" -> path
              [] k = "__ow_method" -> method
              [] k = "__ow_headers" -> headers
              [] k = "__ow_body" -> body
              [] k = "__ow_isBase64Encoded" -> isBase64Encoded
              [] k = "__ow_query" -> query])

MethodGet == Str(<<"G", "E", "T">>)
SlashA == <<"/", "a">>
ForwardedHeaders ==
    Obj([k \in {"content-length", "x-forwarded-for"} |->
            IF k = "content-length" THEN Str(<<"9">>) ELSE Str(<<"1", ".", "2">>)])
LengthHeader == Obj([k \in {"content-length"} |-> Str(<<"9">>)])
OneQuery == Obj(<< << <<"q">>, Arr(<< <<"1">>, <<" ">> >>) >> >>)

\* values that are no event object at all
NonEvents ==
    {Undefined, Null, Bool(FALSE), Bool(TRUE), Num(0), Num(5), Str(<<>>),
     Str(SlashA), EmptyObject}

\* events whose fields are absent, null, of the wrong shape, or as documented
FieldEvents ==
    {HttpEvent(p, m, h, b, i, q) :
        p \in {Undefined, Null, Num(5), Str(<<>>), Str(SlashA)},
        m \in {Undefined, Null, MethodGet},
        h \in {Undefined, Null, EmptyObject, ForwardedHeaders},
        b \in {Undefined, Str(<<>>), Str(<<"Y", "Q", "=", "=">>)},
        i \in {Undefined, Bool(TRUE)},
        q \in {Undefined, OneQuery}}

BodyAlphabet == {"Y", "=", "e'"}

\* well-formed events with every body up to MaxBodyLen characters
BodyEvents ==
    {HttpEvent(Str(SlashA), MethodGet, LengthHeader, Str(b), i, Undefined) :
        b \in SeqsUpTo(BodyAlphabet, MaxBodyLen), i \in {Bool(TRUE), Bool(FALSE)}}

Events == NonEvents \cup FieldEvents \cup BodyEvents

AdapterOptions ==
    {Undefined, Obj([k \in {"stripBasePath"} |-> Undefined])}
        \cup Options({<<>>, SlashA, <<"(">>})

HeaderValues == {<<"a">>, <<"b", "=", "1">>}

HeaderValueLists ==
    {Arr(l) : l \in SeqsUpTo(HeaderValues, MaxHeaderValues)}

ResponseHeaders ==
    {EmptyObject}
        \cup {Obj([k \in {"set-cookie"} |-> v]) :
                 v \in HeaderValueLists \cup {Str(x) : x \in HeaderValues}}
        \cup {Obj([k \in {"set-cookie", "x"} |->
                     IF k = "x" THEN Str(<<"a">>) ELSE l]) : l \in HeaderValueLists}

Responses ==
    {[event |-> None, statusCode |-> c[1], body |-> c[2], headers |-> h,
      isBase64Encoded |-> FALSE] :
        c \in {<<200, Str(<<"o", "k">>)>>, <<404, Undefined>>},
        h \in ResponseHeaders}

Stack == <<"E", "r", "r", "o", "r", ":", " ", "x">>

\* what a handler can throw: any value, an Error among them
Errors ==
    {Undefined, Null, Str(<<"b", "o", "o", "m">>),
     Obj([k \in {"stack"} |-> Undefined]),
     Obj([k \in {"stack"} |-> Str(<<>>)]),
     Obj([k \in {"stack"} |-> Str(Stack)])}

Failures ==
    {[event |-> None, error |-> e, respondWithErrors |-> b] :
        e \in Errors, b \in BOOLEAN}

(***************************************************************************)
(* Spec: one request through the whole lifecycle                            *)
(***************************************************************************)
Init == InitWith(AdapterOptions, {1})

Next ==
    \/ \E r \in DOMAIN pc : Receive(r, Events)
    \/ \E r \in DOMAIN pc : CanHandle(r)
    \/ \E r \in DOMAIN pc : GetRequest(r)
    \/ \E r \in DOMAIN pc : GetResponse(r, Responses)
    \/ \E r \in DOMAIN pc : OnErrorWhileForwarding(r, Failures)

Spec == Init /\ [][Next]_vars

(***************************************************************************)
(* SpecPath: getRequest over every base path and every raw path             *)
(***************************************************************************)
PathAlphabet == {"/", "a", ".", "*", "(", "$"}

PathEvents ==
    {HttpEvent(Str(p), MethodGet, EmptyObject, Undefined, Undefined, Undefined) :
        p \in SeqsUpTo(PathAlphabet, MaxPathLen)}

InitPath == InitWith(Options(SeqsUpTo(PathAlphabet, MaxBaseLen)), {1})

NextPath ==
    \/ \E r \in DOMAIN pc : Receive(r, PathEvents)
    \/ \E r \in DOMAIN pc : CanHandle(r)
    \/ \E r \in DOMAIN pc : GetRequest(r)

SpecPath == InitPath /\ [][NextPath]_vars

(***************************************************************************)
(* SpecShared: one adapter instance, NumRequests requests interleaved       *)
(***************************************************************************)
SharedEvents ==
    {HttpEvent(Str(SlashA \o SlashA), MethodGet, LengthHeader, b, Undefined, Undefined) :
        b \in {Undefined, Str(<<"e'">>)}}

SharedResponses ==
    {[event |-> None, statusCode |-> 200, body |-> Str(<<"o", "k">>),
      headers |-> Obj([k \in {"x"} |-> Arr(<< <<"a">>, <<"a">> >>)]),
      isBase64Encoded |-> FALSE]}

SharedFailures ==
    {[event |-> None, error |-> Obj([k \in {"stack"} |-> Str(Stack)]),
      respondWithErrors |-> TRUE]}

InitShared == InitWith({Undefined} \cup Options({SlashA}), 1..NumRequests)

NextShared ==
    \/ \E r \in DOMAIN pc : Receive(r, SharedEvents)
    \/ \E r \in DOMAIN pc : CanHandle(r)
    \/ \E r \in DOMAIN pc : GetRequest(r)
    \/ \E r \in DOMAIN pc : GetResponse(r, SharedResponses)
    \/ \E r \in DOMAIN pc : OnErrorWhileForwarding(r, SharedFailures)

SpecShared == InitShared /\ [][NextShared]_vars

(***************************************************************************)
(* Properties                                                               *)
(***************************************************************************)
Requests == DOMAIN pc

Field(e, k) == e.v[k]

\* the configured base path, "" when none is configured
BasePath == getDefaultIfUndefined(GetOptional(constructed, "stripBasePath"), Str(<<>>)).v

\* s without the prefix p when s begins with p character for character
StripLiteralPrefix(s, p) ==
    IF StartsWith(s, p) THEN SubSeq(s, Len(p) + 1, Len(s)) ELSE s

\* C1: for every event canHandle accepted, getRequest does not throw and
\* returns a method, a non-empty path and a headers map.
C1_GetRequestTotal ==
    \A r \in Requests :
        handled[r] = Bool(TRUE) =>
            /\ thrown[r].in # "getRequest"
            /\ request[r] # None =>
                  /\ request[r].method.t = "string"
                  /\ request[r].path.t = "string"
                  /\ Len(request[r].path.v) > 0
                  /\ request[r].headers.t = "object"

\* C2: every call of onErrorWhileForwarding that has ended has handed exactly
\* one response to delegatedResolver.succeed and has not thrown.
C2_ErrorAlwaysResolved ==
    \A r \in Requests :
        /\ Len(resolved[r]) <= 1
        /\ (props[r] # None /\ "error" \in DOMAIN props[r]) =>
              /\ thrown[r].in # "onErrorWhileForwarding"
              /\ Len(resolved[r]) = 1

\* C3: a response handed to delegatedResolver.succeed has status 500; its body
\* is empty when respondWithErrors is false, whatever the error, and is the
\* error's stack when respondWithErrors is true.
C3_ErrorResponse ==
    \A r \in Requests :
        \A i \in 1..Len(resolved[r]) :
            LET sent == resolved[r][i]
                stack == GetOptional(props[r].error, "stack")
            IN /\ sent.statusCode = 500
               /\ ~props[r].respondWithErrors => sent.body = Str(<<>>)
               /\ (props[r].respondWithErrors /\ stack.t = "string") => sent.body = stack

\* C3 witness: an error with a stack was answered with respondWithErrors false
C3_Witness ==
    \E r \in Requests :
        /\ Len(resolved[r]) = 1
        /\ ~props[r].respondWithErrors
        /\ GetOptional(props[r].error, "stack") = Str(Stack)

AllMarkersPresent(e) ==
    /\ e.t = "object"
    /\ \A k \in {"__ow_path", "__ow_method", "__ow_headers"} :
          k \in DOMAIN e.v /\ e.v[k] # Undefined

\* C4: canHandle never throws; it returns true exactly when the value is an
\* object whose three marker fields are all present, false for null,
\* undefined, primitives and objects missing a marker.
C4_CanHandleTotal ==
    \A r \in Requests :
        /\ thrown[r].in # "canHandle"
        /\ pc[r] \notin {"idle", "received"} =>
              handled[r] = Bool(AllMarkersPresent(received[r]))

\* C4 witness: canHandle returned false for null
C4_Witness ==
    \E r \in Requests : received[r] = Null /\ handled[r] = Bool(FALSE)

\* C5: whenever getRequest returns, the path is the raw path without the
\* configured base path when the raw path starts with it, and the raw path
\* unchanged when it does not.
C5_AnchoredStrip ==
    \A r \in Requests :
        request[r] # None =>
            request[r].path.v
                = StripLiteralPrefix(Field(received[r], "__ow_path").v, BasePath)

\* Beside C5: for a base path without pattern characters the stripping is
\* the literal, anchored one.
PlainBasePath == \A i \in 1..Len(BasePath) : BasePath[i] \notin {".", "*", "(", "$"}

AnchoredStripOfPlainBasePath ==
    \A r \in Requests :
        PlainBasePath =>
            /\ thrown[r].in # "getRequest"
            /\ request[r] # None =>
                  request[r].path.v
                      = StripLiteralPrefix(Field(received[r], "__ow_path").v, BasePath)

\* a base path found later in the raw path, not at its start, was left there
AnchoredStripWitness ==
    \E r \in Requests :
        /\ request[r] # None
        /\ BasePath = <<"/", "a">>
        /\ Field(received[r], "__ow_path").v = <<"/", "/", "a">>
        /\ request[r].path.v = <<"/", "/", "a">>

\* C6: the event is at all times as the platform delivered it.
C6_EventUnchanged ==
    \A r \in Requests : event[r] = received[r]

\* C7: with a non-empty body the returned body is the decoded bytes and the
\* returned content-length is their count; with no body or an empty one the
\* returned body is absent and the returned headers are the event's headers.
C7_BodyAndContentLength ==
    \A r \in Requests :
        request[r] # None =>
            LET raw == Field(received[r], "__ow_body")
                flag == Field(received[r], "__ow_isBase64Encoded")
                bytes == IF flag = Bool(TRUE) THEN Base64Decode(raw.v) ELSE Utf8Encode(raw.v)
            IN IF raw.t = "string" /\ raw.v # <<>>
               THEN /\ request[r].body = Buf(bytes)
                    /\ request[r].headers.v["content-length"]
                          = Str(NumberToString(Len(bytes)))
                    /\ \A k \in DOMAIN Field(received[r], "__ow_headers").v \ {"content-length"} :
                          request[r].headers.v[k] = Field(received[r], "__ow_headers").v[k]
               ELSE /\ request[r].body = Undefined
                    /\ request[r].headers = Field(received[r], "__ow_headers")

\* C7 witness: a base64 body whose decoded length differs from the string's,
\* in an event that carried another content-length
C7_Witness ==
    \E r \in Requests :
        /\ request[r] # None
        /\ Field(received[r], "__ow_isBase64Encoded") = Bool(TRUE)
        /\ Field(received[r], "__ow_body").t = "string"
        /\ request[r].body.t = "buffer"
        /\ Len(request[r].body.v) > 0
        /\ Len(request[r].body.v) # Len(Field(received[r], "__ow_body").v)
        /\ Field(received[r], "__ow_headers") = LengthHeader

\* C8: getResponse returns statusCode and body as given and the same header
\* keys, every value one string: an array joined by commas in order, a
\* string as it is.
C8_GetResponse ==
    \A r \in Requests :
        response[r] # None =>
            /\ response[r].statusCode = props[r].statusCode
            /\ response[r].body = props[r].body
            /\ DOMAIN response[r].headers.v = DOMAIN props[r].headers.v
            /\ \A k \in DOMAIN props[r].headers.v :
                  LET given == props[r].headers.v[k]
                      flat == response[r].headers.v[k]
                  IN /\ flat.t = "string"
                     /\ given.t = "array" => flat.v = Join(given.v, <<",">>)
                     /\ given.t = "string" => flat = given

\* C8 witness: a header with two values came out as one string
C8_Witness ==
    \E r \in Requests :
        /\ response[r] # None
        /\ "set-cookie" \in DOMAIN props[r].headers.v
        /\ props[r].headers.v["set-cookie"] = Arr(<< <<"a">>, <<"b", "=", "1">> >>)
        /\ response[r].headers.v["set-cookie"] = Str(<<"a", ",", "b", "=", "1">>)

\* C9: under every interleaving the adapter's options are the constructed
\* ones, and what each call returned is what the call returns on the
\* constructed adapter and the request's own inputs.
C9_SharedAdapter ==
    /\ options = constructed
    /\ \A r \in Requests :
          /\ handled[r] # None => handled[r] = Bool(canHandle(received[r]).ret)
          /\ request[r] # None => request[r] = getRequest(constructed, received[r]).ret
          /\ response[r] # None => response[r] = getResponse(constructed, props[r]).ret
          /\ pc[r] = "finished" =>
                resolved[r] = onErrorWhileForwarding(constructed, props[r]).succeed

\* C9 witness: two requests with different events went through getRequest
\* one after the other, one ended in getResponse, the other in
\* onErrorWhileForwarding
C9_Witness ==
    \E r1, r2 \in Requests :
        /\ pc[r1] = "responded"
        /\ pc[r2] = "finished"
        /\ received[r1] # received[r2]
        /\ BasePath # <<>>
        /\ request[r1].path # Field(received[r1], "__ow_path")

\* C10: getRequest never throws, and strips the base path exactly when the
\* raw path begins with it character for character.
C10_LiteralPrefix ==
    \A r \in Requests :
        /\ thrown[r].in # "getRequest"
        /\ request[r] # None =>
              (request[r].path.v # Field(received[r], "__ow_path").v
                  <=> (BasePath # <<>> /\ StartsWith(Field(received[r], "__ow_path").v, BasePath)))

====
